---- MODULE Spec2Model ----
(***************************************************************************)
(* Unified-diff parsing and hunk application of patcher.py.                *)
(*                                                                         *)
(* Text is modelled at character level: a string is a sequence of          *)
(* one-character strings, a list of lines is a sequence of such sequences. *)
(* Three specifications share the variables:                               *)
(*   SpecParse  parse_diff, one action per loop iteration                  *)
(*   SpecPatch  apply_patch on one file, called repeatedly                 *)
(*   Spec       apply_diff_to_codebase over a small directory              *)
(***************************************************************************)
EXTENDS Integers, Sequences, FiniteSets, TLC

VARIABLES
    diff_text,   \* the text handed to parse_diff / apply_diff_to_codebase
    ps,          \* parse_diff's locals (SpecParse)
    hdr,         \* SpecParse, history: index in lines of the last hunk header matched
    iters,       \* SpecParse, history: loop iterations parse_diff has run
    disk,        \* relative path -> file content, or NoFile
    patch,       \* the FilePatch handed to apply_patch (SpecPatch)
    log,         \* history: one record per apply_patch call, in call order:
                 \* the I/O failure that struck it, the directory before, the outcome
    pc,          \* control position of the specification's caller
    patches,     \* Spec: the list parse_diff returned
    k,           \* Spec: number of patches already processed
    results,     \* Spec: apply_diff_to_codebase's result list so far
    db_calls,    \* Spec: the update_file_content calls made so far
    disk0,       \* Spec, history: the directory when apply_diff_to_codebase was called
    chat         \* SpecChat: option_chat's locals and the number of its loop iterations

vars == <<diff_text, ps, hdr, iters, disk, patch, log, pc, patches, k, results, db_calls, disk0, chat>>

-----------------------------------------------------------------------------
(* Python string helpers, as the code uses them *)

Digits == {"0", "1", "2", "3", "4", "5", "6", "7", "8", "9"}

DigitVal(c) ==
    CASE c = "0" -> 0 [] c = "1" -> 1 [] c = "2" -> 2 [] c = "3" -> 3
      [] c = "4" -> 4 [] c = "5" -> 5 [] c = "6" -> 6 [] c = "7" -> 7
      [] c = "8" -> 8 [] c = "9" -> 9

\* str.strip() and str.splitlines() character classes (ASCII part)
Whitespace == {" ", "\t", "\n", "\r", "\f"}
LineBreaks == {"\n", "\r", "\f"}

\* s.startswith(p)
StartsWith(s, p) == Len(s) >= Len(p) /\ SubSeq(s, 1, Len(p)) = p

\* s[n:]
Drop(s, n) == IF n >= Len(s) THEN <<>> ELSE SubSeq(s, n + 1, Len(s))

\* s.endswith(p)
EndsWith(s, p) == Len(s) >= Len(p) /\ SubSeq(s, Len(s) - Len(p) + 1, Len(s)) = p

RECURSIVE LStrip(_)
LStrip(s) == IF s # <<>> /\ Head(s) \in Whitespace THEN LStrip(Tail(s)) ELSE s

RECURSIVE RStrip(_)
RStrip(s) ==
    IF s # <<>> /\ s[Len(s)] \in Whitespace THEN RStrip(SubSeq(s, 1, Len(s) - 1)) ELSE s

\* s.strip()
Strip(s) == RStrip(LStrip(s))

\* s.split("\t")[0]
RECURSIVE SplitTabFirst(_)
SplitTabFirst(s) ==
    IF s = <<>> \/ Head(s) = "\t" THEN <<>> ELSE <<Head(s)>> \o SplitTabFirst(Tail(s))

\* int(s) for a string of decimal digits
RECURSIVE ToInt(_)
ToInt(s) ==
    IF s = <<>> THEN 0 ELSE 10 * ToInt(SubSeq(s, 1, Len(s) - 1)) + DigitVal(s[Len(s)])

\* index of the first line break of s, 0 if it has none
FirstBreak(s) ==
    IF \E i \in 1..Len(s) : s[i] \in LineBreaks
    THEN CHOOSE i \in 1..Len(s) :
             s[i] \in LineBreaks /\ \A j \in 1..(i - 1) : s[j] \notin LineBreaks
    ELSE 0

\* text.splitlines(): "\r\n" is one break, a final break opens no further line
RECURSIVE SplitLines(_)
SplitLines(s) ==
    LET b == FirstBreak(s)
        w == IF s[b] = "\r" /\ b < Len(s) /\ s[b + 1] = "\n" THEN 2 ELSE 1
    IN  IF s = <<>> THEN <<>>
        ELSE IF b = 0 THEN <<s>>
        ELSE <<SubSeq(s, 1, b - 1)>> \o SplitLines(Drop(s, b + w - 1))

\* "\n".join(ls)
RECURSIVE JoinLines(_)
JoinLines(ls) ==
    IF ls = <<>> THEN <<>>
    ELSE IF Len(ls) = 1 THEN ls[1]
    ELSE ls[1] \o <<"\n">> \o JoinLines(Tail(ls))

-----------------------------------------------------------------------------
(* Data model: HunkLine, Hunk, FilePatch *)

HunkLine(op, text) == [op |-> op, text |-> text]

Hunk(old_start, old_count, new_start, new_count, lines) ==
    [old_start |-> old_start, old_count |-> old_count,
     new_start |-> new_start, new_count |-> new_count, lines |-> lines]

FilePatch(old_path, new_path, hunks) ==
    [old_path |-> old_path, new_path |-> new_path, hunks |-> hunks]

-----------------------------------------------------------------------------
(* Parsing *)

DevNull == <<"/", "d", "e", "v", "/", "n", "u", "l", "l">>

\* faulty variant: "/dev/null" is kept as a path
_strip_path_prefix_keeps_null(p) ==
    IF StartsWith(p, <<"a", "/">>) \/ StartsWith(p, <<"b", "/">>) THEN Drop(p, 2) ELSE p

_strip_path_prefix(p) ==
    IF StartsWith(p, <<"a", "/">>) \/ StartsWith(p, <<"b", "/">>) THEN Drop(p, 2)
    ELSE IF p = DevNull THEN <<>>
    ELSE p

\* index just past the run of digits that starts at index p (p itself if none)
RECURSIVE DigitsEnd(_, _)
DigitsEnd(s, p) == IF p <= Len(s) /\ s[p] \in Digits THEN DigitsEnd(s, p + 1) ELSE p

\* the literal lit occurs in s at index p
LitAt(s, p, lit) == p + Len(lit) - 1 <= Len(s) /\ SubSeq(s, p, p + Len(lit) - 1) = lit

NoGroup == <<"None">>

\* one "(\d+)(?:,(\d+))?" of the hunk header, from index p:
\* [ok, g1, g2, next]; g2 = NoGroup when the optional group did not take part
RangeAt(s, p) ==
    LET e1 == DigitsEnd(s, p)
        hasComma == e1 <= Len(s) /\ s[e1] = ","
        e2 == IF hasComma THEN DigitsEnd(s, e1 + 1) ELSE e1
    IN  IF e1 = p THEN [ok |-> FALSE, g1 |-> <<>>, g2 |-> NoGroup, next |-> p]
        ELSE IF hasComma /\ e2 > e1 + 1
             THEN [ok |-> TRUE, g1 |-> SubSeq(s, p, e1 - 1),
                   g2 |-> SubSeq(s, e1 + 1, e2 - 1), next |-> e2]
             ELSE [ok |-> TRUE, g1 |-> SubSeq(s, p, e1 - 1), g2 |-> NoGroup, next |-> e1]

\* re.match(r"^@@ -(\d+)(?:,(\d+))? \+(\d+)(?:,(\d+))? @@", line):
\* [ok, g1, g2, g3, g4]
HunkHeaderMatch(line) ==
    LET fail == [ok |-> FALSE, g1 |-> <<>>, g2 |-> NoGroup, g3 |-> <<>>, g4 |-> NoGroup]
        old == RangeAt(line, 5)
        new == RangeAt(line, old.next + 2)
    IN  IF ~LitAt(line, 1, <<"@", "@", " ", "-">>) THEN fail
        ELSE IF ~old.ok \/ ~LitAt(line, old.next, <<" ", "+">>) THEN fail
        ELSE IF ~new.ok \/ ~LitAt(line, new.next, <<" ", "@", "@">>) THEN fail
        ELSE [ok |-> TRUE, g1 |-> old.g1, g2 |-> old.g2, g3 |-> new.g1, g4 |-> new.g2]

\* int(group or 1)
CountOf(g) == IF g = NoGroup THEN 1 ELSE ToInt(g)

\* parse_diff's locals on entry; at is the loop the control is in
ParseStart(text) ==
    [lines |-> SplitLines(text), i |-> 0, at |-> "files", patches |-> <<>>,
     old_path |-> <<>>, new_path |-> <<>>, hunks |-> <<>>,
     old_start |-> 0, old_count |-> 0, new_start |-> 0, new_count |-> 0,
     hunk_lines |-> <<>>, old_remaining |-> 0, new_remaining |-> 0]

\* lines[i] of the code (the code's i counts from 0)
LineAt(st) == st.lines[st.i + 1]

Dashes == <<"-", "-", "-">>
Pluses == <<"+", "+", "+">>

\* faulty variant: "continue" without "i += 1"
SkipLineStuck(st) == st

\* "i += 1; continue"
SkipLine(st) == [st EXCEPT !.i = st.i + 1]

\* one iteration of "while i < len(lines)" up to the point where it either
\* loops again or enters the hunk loop of a file block
FilesStep(st) ==
    IF st.i >= Len(st.lines) THEN [st EXCEPT !.at = "done"]
    ELSE IF ~StartsWith(LineAt(st), Dashes) THEN SkipLine(st)
    ELSE LET old_path_raw == Strip(Drop(LineAt(st), 4))
             s1 == [st EXCEPT !.i = st.i + 1]
         IN  IF s1.i >= Len(s1.lines) \/ ~StartsWith(LineAt(s1), Pluses) THEN s1
             ELSE LET new_path_raw == Strip(Drop(LineAt(s1), 4))
                  IN  [s1 EXCEPT !.i = s1.i + 1,
                                 !.old_path = _strip_path_prefix(SplitTabFirst(old_path_raw)),
                                 !.new_path = _strip_path_prefix(SplitTabFirst(new_path_raw)),
                                 !.hunks = <<>>,
                                 !.at = "hunks"]

\* one iteration of "while i < len(lines) and not lines[i].startswith('---')",
\* up to the point where it loops again or enters the hunk-line loop; when the
\* loop condition fails the FilePatch is appended
HunksStep(st) ==
    IF st.i < Len(st.lines) /\ ~StartsWith(LineAt(st), Dashes)
    THEN LET m == HunkHeaderMatch(LineAt(st))
         IN  IF ~m.ok THEN SkipLine(st)
             ELSE [st EXCEPT !.old_start = ToInt(m.g1),
                             !.old_count = CountOf(m.g2),
                             !.new_start = ToInt(m.g3),
                             !.new_count = CountOf(m.g4),
                             !.i = st.i + 1,
                             !.hunk_lines = <<>>,
                             !.old_remaining = CountOf(m.g2),
                             !.new_remaining = CountOf(m.g4),
                             !.at = "body"]
    ELSE [st EXCEPT !.patches = Append(st.patches,
                                       FilePatch(st.old_path, st.new_path, st.hunks)),
                    !.at = "files"]

\* hunks.append(Hunk(...)) after the hunk-line loop
CloseHunk(st) ==
    [st EXCEPT !.hunks = Append(st.hunks,
                                Hunk(st.old_start, st.old_count, st.new_start,
                                     st.new_count, st.hunk_lines)),
               !.at = "hunks"]

\* faulty variant: a removed line recorded as an added one
RemoveLineAsAdd(st, line) ==
    [st EXCEPT !.hunk_lines = Append(st.hunk_lines, [op |-> "+", text |-> Drop(line, 1)]),
               !.old_remaining = st.old_remaining - 1,
               !.i = st.i + 1]

\* the branch "line.startswith('-')" of the hunk-line loop
RemoveLine(st, line) ==
    [st EXCEPT !.hunk_lines = Append(st.hunk_lines, HunkLine("-", Drop(line, 1))),
               !.old_remaining = st.old_remaining - 1,
               !.i = st.i + 1]

\* one iteration of "while i < len(lines) and (old_remaining > 0 or
\* new_remaining > 0)"; on break or when the condition fails the Hunk is appended
BodyStep(st) ==
    IF st.i < Len(st.lines) /\ (st.old_remaining > 0 \/ st.new_remaining > 0)
    THEN LET line == LineAt(st)
         IN  IF StartsWith(line, <<"-">>)
             THEN RemoveLine(st, line)
             ELSE IF StartsWith(line, <<"+">>)
             THEN [st EXCEPT !.hunk_lines = Append(st.hunk_lines, HunkLine("+", Drop(line, 1))),
                             !.new_remaining = st.new_remaining - 1,
                             !.i = st.i + 1]
             ELSE IF StartsWith(line, <<" ">>) \/ line = <<>>
             THEN [st EXCEPT !.hunk_lines = Append(st.hunk_lines, HunkLine(" ", Drop(line, 1))),
                             !.old_remaining = st.old_remaining - 1,
                             !.new_remaining = st.new_remaining - 1,
                             !.i = st.i + 1]
             ELSE IF StartsWith(line, <<"\\">>)
             THEN [st EXCEPT !.i = st.i + 1]
             ELSE CloseHunk(st)
    ELSE CloseHunk(st)

ParseStep(st) ==
    CASE st.at = "files" -> FilesStep(st)
      [] st.at = "hunks" -> HunksStep(st)
      [] st.at = "body"  -> BodyStep(st)
      [] OTHER           -> st

RECURSIVE ParseRun(_)
ParseRun(st) == IF st.at = "done" THEN st ELSE ParseRun(ParseStep(st))

parse_diff(text) == ParseRun(ParseStart(text)).patches

-----------------------------------------------------------------------------
(* Applying *)

\* Python's normalisation of a slice bound n for a list of length len
SliceBound(n, len) ==
    IF n < 0 THEN (IF n + len < 0 THEN 0 ELSE n + len)
    ELSE IF n > len THEN len ELSE n

\* s[:n]
PyPrefix(s, n) == SubSeq(s, 1, SliceBound(n, Len(s)))

\* s[n:]
PySuffix(s, n) == SubSeq(s, SliceBound(n, Len(s)) + 1, Len(s))

\* the loop "for op, text in hunk.lines" of _apply_hunk from entry j on, with
\* the locals result and src_idx: [status, lines], status "ok", "none"
\* (return None) or "raise" (IndexError of file_lines[src_idx])
RECURSIVE HunkLoop(_, _, _, _, _)
HunkLoop(file_lines, hlines, j, result, src_idx) ==
    IF j > Len(hlines)
    THEN [status |-> "ok", lines |-> result \o PySuffix(file_lines, src_idx)]
    ELSE LET op == hlines[j].op
             text == hlines[j].text
         IN  IF op = " "
             THEN IF src_idx >= Len(file_lines) THEN [status |-> "none", lines |-> <<>>]
                  ELSE IF src_idx + Len(file_lines) < 0
                  THEN [status |-> "raise", lines |-> <<>>]
                  ELSE LET idx == IF src_idx < 0 THEN src_idx + Len(file_lines) ELSE src_idx
                       IN  HunkLoop(file_lines, hlines, j + 1,
                                    Append(result, file_lines[idx + 1]), src_idx + 1)
             ELSE IF op = "-"
             THEN IF src_idx >= Len(file_lines) THEN [status |-> "none", lines |-> <<>>]
                  ELSE HunkLoop(file_lines, hlines, j + 1, result, src_idx + 1)
             ELSE IF op = "+"
             THEN HunkLoop(file_lines, hlines, j + 1, Append(result, text), src_idx)
             ELSE HunkLoop(file_lines, hlines, j + 1, result, src_idx)

_apply_hunk(file_lines, hunk) ==
    LET hunk_start == hunk.old_start - 1
    IN  HunkLoop(file_lines, hunk.lines, 1, PyPrefix(file_lines, hunk_start), hunk_start)

\* faulty variant: a hunk that does not apply is skipped and the loop goes on
RECURSIVE ReversedHunksSkipFailed(_, _, _)
ReversedHunksSkipFailed(file_lines, hunks, n) ==
    IF n = 0 THEN [status |-> "ok", lines |-> file_lines, at |-> 0]
    ELSE LET r == _apply_hunk(file_lines, hunks[n])
         IN  ReversedHunksSkipFailed(IF r.status = "ok" THEN r.lines ELSE file_lines,
                                     hunks, n - 1)

\* faulty variant: the hunks applied first to last, each to the buffer the one before
\* it left
RECURSIVE ForwardHunks(_, _, _)
ForwardHunks(file_lines, hunks, n) ==
    IF n = 0 THEN [status |-> "ok", lines |-> file_lines, at |-> 0]
    ELSE LET h == hunks[Len(hunks) - n + 1]
             r == _apply_hunk(file_lines, h)
         IN  IF r.status = "ok" THEN ForwardHunks(r.lines, hunks, n - 1)
             ELSE [status |-> r.status, lines |-> <<>>, at |-> h.old_start]

\* "for hunk in reversed(patch.hunks)" from hunk number n down to 1:
\* [status, lines, at], at = the old_start of the hunk that stopped the loop
RECURSIVE ReversedHunks(_, _, _)
ReversedHunks(file_lines, hunks, n) ==
    IF n = 0 THEN [status |-> "ok", lines |-> file_lines, at |-> 0]
    ELSE LET r == _apply_hunk(file_lines, hunks[n])
         IN  IF r.status = "ok" THEN ReversedHunks(r.lines, hunks, n - 1)
             ELSE [status |-> r.status, lines |-> <<>>, at |-> hunks[n].old_start]

\* faulty variant: only the added lines go into a new file
RECURSIVE CreatedLinesAddOnly(_)
CreatedLinesAddOnly(hlines) ==
    IF hlines = <<>> THEN <<>>
    ELSE (IF Head(hlines).op = "+" THEN Head(hlines).text \o <<"\n">> ELSE <<>>)
         \o CreatedLinesAddOnly(Tail(hlines))

\* the content apply_patch synthesises for a new file
RECURSIVE CreatedLines(_)
CreatedLines(hlines) ==
    IF hlines = <<>> THEN <<>>
    ELSE (IF Head(hlines).op \in {"+", " "} THEN Head(hlines).text \o <<"\n">> ELSE <<>>)
         \o CreatedLines(Tail(hlines))

RECURSIVE CreatedContent(_)
CreatedContent(hunks) ==
    IF hunks = <<>> THEN <<>>
    ELSE CreatedLines(Head(hunks).lines) \o CreatedContent(Tail(hunks))

\* "\n".join(file_lines), plus "\n" unless it already ends with one
PatchedContent(file_lines) ==
    LET joined == JoinLines(file_lines)
    IN  IF EndsWith(joined, <<"\n">>) THEN joined ELSE joined \o <<"\n">>

\* The directory under root_path: a function from the relative paths of the
\* files that exist to their contents.
Exists(d, p) == p \in DOMAIN d

WriteText(d, p, content) == [q \in DOMAIN d \cup {p} |-> IF q = p THEN content ELSE d[q]]

\* What the operating system does to the calls of one apply_patch: every call
\* succeeds, or the named one raises OSError (and leaves the file as it was).
IOChoices == {"ok", "mkdir_fails", "read_fails", "write_fails"}

NoPath == <<"None">>

\* apply_patch's return value (ok, msg), msg by its parts, and its effect:
\* raised = an exception left apply_patch, wrote = the path written or NoPath,
\* fault = the I/O failure that struck the call, "ok" if none did
Outcome(ok, kind, rel, line, d, raised, wrote, fault) ==
    [ok |-> ok, kind |-> kind, rel |-> rel, line |-> line,
     disk |-> d, raised |-> raised, wrote |-> wrote, fault |-> fault]

apply_patch(p, d, io) ==
    LET rel == IF p.new_path # <<>> THEN p.new_path ELSE p.old_path
    IN  IF rel = <<>> THEN Outcome(FALSE, "NoPath", rel, 0, d, FALSE, NoPath, "ok")
        ELSE IF p.old_path = <<>>
        THEN IF io \in {"mkdir_fails", "write_fails"}
             THEN Outcome(FALSE, "FailedCreate", rel, 0, d, FALSE, NoPath, io)
             ELSE Outcome(TRUE, "Created", rel, 0,
                          WriteText(d, rel, CreatedContent(p.hunks)), FALSE, rel, "ok")
        ELSE IF ~Exists(d, rel) /\ ~Exists(d, p.old_path)
        THEN Outcome(FALSE, "NotFound", rel, 0, d, FALSE, NoPath, "ok")
        ELSE LET target == IF Exists(d, rel) THEN rel ELSE p.old_path
             IN  IF io = "read_fails"
                 THEN Outcome(FALSE, "CannotRead", target, 0, d, FALSE, NoPath, io)
                 ELSE LET r == ReversedHunks(SplitLines(d[target]), p.hunks, Len(p.hunks))
                      IN  IF r.status = "none"
                          THEN Outcome(FALSE, "Mismatch", target, r.at, d, FALSE, NoPath, "ok")
                          ELSE IF r.status = "raise"
                          THEN Outcome(FALSE, "Raised", target, 0, d, TRUE, NoPath, "ok")
                          ELSE IF io = "write_fails"
                          THEN Outcome(FALSE, "Raised", target, 0, d, TRUE, NoPath, io)
                          ELSE Outcome(TRUE, "Patched", target, 0,
                                       WriteText(d, target, PatchedContent(r.lines)),
                                       FALSE, target, "ok")

-----------------------------------------------------------------------------
(* Bounded inputs *)

SeqsUpTo(S, n) == UNION {[1..m -> S] : m \in 0..n}

\* values of the variables a specification does not use
Idle == <<>>
NoDisk == [q \in {} |-> <<>>]

-----------------------------------------------------------------------------
(* SpecParse: parse_diff on every text of up to MaxLines lines over DiffLines *)

MaxLines == 4

DiffLines ==
    { <<"-", "-", "-", " ", "a", "/", "f">>,                               \* --- a/f
      <<"+", "+", "+", " ", "b", "/", "f">>,                               \* +++ b/f
      <<"@", "@", " ", "-", "1", " ", "+", "0", ",", "0", " ", "@", "@">>, \* @@ -1 +0,0 @@
      <<"-", "x">>,
      <<"+", "y">>,
      <<" ", "c">>,
      <<"\\">>,
      <<>> }

InitParse ==
    /\ diff_text \in {JoinLines(ls) : ls \in SeqsUpTo(DiffLines, MaxLines)}
    /\ ps = ParseStart(diff_text)
    /\ hdr = 0
    /\ iters = 0
    /\ pc = "parse"
    /\ disk = NoDisk /\ patch = Idle /\ log = Idle /\ patches = Idle
    /\ k = 0 /\ results = Idle /\ db_calls = Idle /\ disk0 = NoDisk /\ chat = Idle

NotParsing == UNCHANGED <<chat, diff_text, disk, patch, log, pc, patches, k, results, db_calls, disk0>>

FilesIter ==
    /\ pc = "parse" /\ ps.at = "files"
    /\ ps' = FilesStep(ps)
    /\ iters' = iters + 1
    /\ UNCHANGED hdr /\ NotParsing

HunksIter ==
    /\ pc = "parse" /\ ps.at = "hunks"
    /\ ps' = HunksStep(ps)
    /\ hdr' = IF ps'.at = "body" THEN ps.i + 1 ELSE hdr
    /\ iters' = iters + 1
    /\ NotParsing

BodyIter ==
    /\ pc = "parse" /\ ps.at = "body"
    /\ ps' = BodyStep(ps)
    /\ iters' = iters + 1
    /\ UNCHANGED hdr /\ NotParsing

NextParse == FilesIter \/ HunksIter \/ BodyIter

\* parse_diff is a synchronous function: a loop that can iterate does
SpecParse == InitParse /\ [][NextParse]_vars /\ WF_vars(NextParse)

-----------------------------------------------------------------------------
(* SpecPatch: apply_patch on one file patch, then the identical patch again *)

MaxFileLines == 2
MaxHunks == 2

FileF == <<"f">>
FileG == <<"g">>

\* the file's lines, when it exists: a prefix of a, b, c, ...
Letters == <<"a", "b", "d", "e", "g">>
FileLines(n) == [j \in 1..n |-> <<Letters[j]>>]

\* contents of f: n lines each ended by "\n"; the longest also without its
\* final "\n" and with a blank last line
FileContents ==
    {JoinLines(FileLines(n)) \o (IF n = 0 THEN <<>> ELSE <<"\n">>) : n \in 0..MaxFileLines}
    \cup {JoinLines(FileLines(MaxFileLines)),
          JoinLines(FileLines(MaxFileLines)) \o <<"\n", "\n">>}

DiskChoices == {NoDisk} \cup {[q \in {FileF} |-> c] : c \in FileContents}

Ctx == HunkLine(" ", <<"c">>)
Rem == HunkLine("-", <<"x">>)
Add == HunkLine("+", <<"N">>)

\* hunk bodies: a removal, an insertion, a replacement, a kept line followed
\* by a removal
HunkBodies == {<<Rem>>, <<Add>>, <<Rem, Add>>, <<Ctx, Rem>>}

\* hunks as parse_diff builds them from exact bodies: the counts are those of
\* the lines; old_start from 0 to one past the longest file
HunkChoices ==
    {Hunk(s, Cardinality({j \in 1..Len(b) : b[j].op \in {" ", "-"}}), s,
          Cardinality({j \in 1..Len(b) : b[j].op \in {" ", "+"}}), b) :
        s \in 0..(MaxFileLines + 1), b \in HunkBodies}

\* modification of f, creation of f, f renamed to g, no path at all
PathChoices == {<<FileF, FileF>>, <<<<>>, FileF>>, <<FileF, FileG>>, <<<<>>, <<>>>>}

PatchChoices ==
    {FilePatch(pp[1], pp[2], hs) : pp \in PathChoices, hs \in SeqsUpTo(HunkChoices, MaxHunks)}

InitPatch ==
    /\ disk \in DiskChoices
    /\ patch \in PatchChoices
    /\ log = <<>>
    /\ pc = "patch"
    /\ diff_text = Idle /\ ps = Idle /\ hdr = 0 /\ iters = 0 /\ chat = Idle /\ patches = Idle
    /\ k = 0 /\ results = Idle /\ db_calls = Idle /\ disk0 = NoDisk

NotPatching == UNCHANGED <<chat, diff_text, ps, hdr, iters, patch, pc, patches, k, results, db_calls, disk0>>

\* one call apply_patch(patch, root_path)
Call(io) ==
    LET out == apply_patch(patch, disk, io)
    IN  /\ disk' = out.disk
        /\ log' = Append(log, [io |-> out.fault, before |-> disk, out |-> out])
        /\ NotPatching

ApplyPatch == pc = "patch" /\ log = <<>> /\ \E io \in IOChoices : Call(io)

\* the identical patch applied again to the file the first call changed
Reapply ==
    /\ pc = "patch" /\ Len(log) = 1 /\ log[1].out.ok
    /\ \E io \in IOChoices : Call(io)

NextPatch == ApplyPatch \/ Reapply

SpecPatch == InitPatch /\ [][NextPatch]_vars

-----------------------------------------------------------------------------
(* Spec: apply_diff_to_codebase *)

MaxBlocks == 2

FileH == <<"h">>

\* --- a/f, +++ b/f, @@ -1 +1 @@, -a, +N: replaces line 1 of f
BlockModify ==
    << <<"-", "-", "-", " ", "a", "/", "f">>,
       <<"+", "+", "+", " ", "b", "/", "f">>,
       <<"@", "@", " ", "-", "1", " ", "+", "1", " ", "@", "@">>,
       <<"-", "a">>,
       <<"+", "N">> >>

\* --- a/f, +++ b/f, @@ -9 +9 @@, " c": a hunk past the end of f
BlockStale ==
    << <<"-", "-", "-", " ", "a", "/", "f">>,
       <<"+", "+", "+", " ", "b", "/", "f">>,
       <<"@", "@", " ", "-", "9", " ", "+", "9", " ", "@", "@">>,
       <<" ", "c">> >>

\* --- /dev/null, +++ b/g, @@ -0,0 +1 @@, +N: creates g
BlockCreate ==
    << <<"-", "-", "-", " ", "/", "d", "e", "v", "/", "n", "u", "l", "l">>,
       <<"+", "+", "+", " ", "b", "/", "g">>,
       <<"@", "@", " ", "-", "0", ",", "0", " ", "+", "1", " ", "@", "@">>,
       <<"+", "N">> >>

\* --- a/f, +++ b/h, @@ -1,0 +1 @@, +N: written against f renamed to h
BlockRename ==
    << <<"-", "-", "-", " ", "a", "/", "f">>,
       <<"+", "+", "+", " ", "b", "/", "h">>,
       <<"@", "@", " ", "-", "1", ",", "0", " ", "+", "1", " ", "@", "@">>,
       <<"+", "N">> >>

\* --- /dev/null, +++ /dev/null: a patch without a path
BlockNoPath ==
    << <<"-", "-", "-", " ", "/", "d", "e", "v", "/", "n", "u", "l", "l">>,
       <<"+", "+", "+", " ", "/", "d", "e", "v", "/", "n", "u", "l", "l">> >>

\* a line of prose, no patch
BlockProse ==
    << <<"o", "k", ":">> >>

\* ---, +++: the two markers with nothing after them
BlockBareMarkers ==
    << <<"-", "-", "-">>,
       <<"+", "+", "+">> >>

\* --- a/f alone: an old-file line that no new-file line follows
BlockOldOnly ==
    << <<"-", "-", "-", " ", "a", "/", "f">> >>

\* --- a/f, +++ b/f, @@ -1,2 +1,2 @@, " a": a hunk cut short, one line where
\* its header declares two
BlockTruncated ==
    << <<"-", "-", "-", " ", "a", "/", "f">>,
       <<"+", "+", "+", " ", "b", "/", "f">>,
       <<"@", "@", " ", "-", "1", ",", "2", " ", "+", "1", ",", "2", " ", "@", "@">>,
       <<" ", "a">> >>

Blocks ==
    {BlockModify, BlockStale, BlockCreate, BlockRename, BlockNoPath, BlockProse,
     BlockBareMarkers, BlockOldOnly, BlockTruncated}

RECURSIVE Flatten(_)
Flatten(bs) == IF bs = <<>> THEN <<>> ELSE Head(bs) \o Flatten(Tail(bs))

\* the diff texts: up to MaxBlocks blocks one after the other
DiffTexts == {JoinLines(Flatten(bs)) \o <<"\n">> : bs \in SeqsUpTo(Blocks, MaxBlocks)}

OneLine == <<"a", "\n">>

\* the directory: empty, f alone, f and h
RootChoices ==
    {NoDisk, [q \in {FileF} |-> OneLine], [q \in {FileF, FileH} |-> OneLine]}

codebase_id == "codebase"

\* one (success, message) entry of the result list, the message by its parts
Entry(ok, kind, rel, line) == [ok |-> ok, kind |-> kind, rel |-> rel, line |-> line]

\* faulty variant: no entry at all when the diff holds no patch
NoPatchesResultEmpty == <<>>

\* [(False, "No valid patches found in diff.")]
NoPatchesResult == <<Entry(FALSE, "NoValidPatches", <<>>, 0)>>

\* the "if ok:" block of the loop: the update_file_content calls it makes
\* for patch p given the directory d that apply_patch left
SyncCalls(p, d) ==
    LET rel == IF p.new_path # <<>> THEN p.new_path ELSE p.old_path
    IN  IF rel # <<>> /\ Exists(d, rel)
        THEN <<[codebase_id |-> codebase_id, rel_path |-> rel, new_content |-> d[rel]]>>
        ELSE <<>>

Init ==
    /\ diff_text \in DiffTexts
    /\ disk \in RootChoices
    /\ disk0 = disk
    /\ pc = "call"
    /\ patches = <<>> /\ k = 0 /\ results = <<>> /\ db_calls = <<>> /\ log = <<>>
    /\ ps = Idle /\ hdr = 0 /\ iters = 0 /\ chat = Idle /\ patch = Idle

\* patches = parse_diff(diff_text) and the early return
Begin ==
    /\ pc = "call"
    /\ patches' = parse_diff(diff_text)
    /\ IF patches' = <<>>
       THEN results' = NoPatchesResult /\ pc' = "returned"
       ELSE results' = <<>> /\ pc' = "loop"
    /\ UNCHANGED <<chat, diff_text, ps, hdr, iters, disk, patch, log, k, db_calls, disk0>>

\* one iteration of "for patch in patches"; db_calls holds, per patch
\* processed, the calls its iteration made; an exception that leaves
\* apply_patch leaves apply_diff_to_codebase too
ApplyNext ==
    /\ pc = "loop" /\ k < Len(patches)
    /\ \E io \in IOChoices :
           LET p == patches[k + 1]
               out == apply_patch(p, disk, io)
           IN  /\ disk' = out.disk
               /\ log' = Append(log, [io |-> out.fault, before |-> disk, out |-> out])
               /\ IF out.raised
                  THEN pc' = "raised" /\ UNCHANGED <<results, db_calls, k>>
                  ELSE /\ results' = Append(results, Entry(out.ok, out.kind, out.rel, out.line))
                       /\ db_calls' = Append(db_calls, IF out.ok THEN SyncCalls(p, out.disk) ELSE <<>>)
                       /\ k' = k + 1
                       /\ pc' = "loop"
    /\ UNCHANGED <<chat, diff_text, ps, hdr, iters, patch, patches, disk0>>

\* return results
Return ==
    /\ pc = "loop" /\ k = Len(patches)
    /\ pc' = "returned"
    /\ UNCHANGED <<chat, diff_text, ps, hdr, iters, disk, patch, log, patches, k, results, db_calls, disk0>>

Next == Begin \/ ApplyNext \/ Return

Spec == Init /\ [][Next]_vars

-----------------------------------------------------------------------------
(* Claims about parse_diff (SpecParse) *)

\* number of entries of a hunk body on the old side (Context + Remove) and on
\* the new side (Context + Add)
OldSide(hlines) == Cardinality({j \in 1..Len(hlines) : hlines[j].op \in {" ", "-"}})
NewSide(hlines) == Cardinality({j \in 1..Len(hlines) : hlines[j].op \in {" ", "+"}})

CountsMatch(h) == OldSide(h.lines) = h.old_count /\ NewSide(h.lines) = h.new_count

\* every Hunk parse_diff has built so far
HunksBuilt ==
    {ps.hunks[j] : j \in 1..Len(ps.hunks)}
    \cup UNION {{ps.patches[a].hunks[j] : j \in 1..Len(ps.patches[a].hunks)} :
                a \in 1..Len(ps.patches)}

\* a line of the text as a line of a hunk body, by its first character
IsOldLine(l) == l = <<>> \/ Head(l) \in {" ", "-"}
IsNewLine(l) == l = <<>> \/ Head(l) \in {" ", "+"}
IsNoNewlineMarker(l) == l # <<>> /\ Head(l) = "\\"

\* the header at line h of the text is followed by exactly the lines it
\* declares: some run of n body lines right after it holds old_count old-side
\* and new_count new-side lines (no-newline markers counting for neither)
ExactBody(lines, h, old_count, new_count) ==
    \E n \in 0..(Len(lines) - h) :
        /\ \A j \in 1..n :
               IsOldLine(lines[h + j]) \/ IsNewLine(lines[h + j])
                   \/ IsNoNewlineMarker(lines[h + j])
        /\ Cardinality({j \in 1..n : IsOldLine(lines[h + j])}) = old_count
        /\ Cardinality({j \in 1..n : IsNewLine(lines[h + j])}) = new_count

\* the Hunk appended last, while no later hunk is being read
LastHunk == ps.hunks[Len(ps.hunks)]
LastHunkClosed == ps.at # "body" /\ ps.hunks # <<>>

\* C4 as stated: in every Hunk parse_diff returns, Context + Remove lines
\* number old_count and Context + Add lines number new_count.
C4_HunkCountsAlways == \A h \in HunksBuilt : CountsMatch(h)

\* C4 amended: a Hunk whose header is followed in the text by exactly the
\* lines it declares has old_count Context + Remove lines and new_count
\* Context + Add lines.
C4_HunkCountsExactBody ==
    (LastHunkClosed /\ ExactBody(ps.lines, hdr, LastHunk.old_count, LastHunk.new_count))
        => CountsMatch(LastHunk)

\* an exact, non-empty hunk body has been parsed to the end of parse_diff
C4_Witness ==
    /\ ps.at = "done" /\ ps.hunks # <<>>
    /\ ExactBody(ps.lines, hdr, LastHunk.old_count, LastHunk.new_count)
    /\ LastHunk.lines # <<>>
    /\ Len(ps.patches) = 1

\* what is left for parse_diff to do: the lines not yet passed, then the
\* loops still to leave (hunk-line loop inside hunk loop inside file loop)
LoopDepth(at) == CASE at = "body" -> 3 [] at = "hunks" -> 2 [] at = "files" -> 1 [] OTHER -> 0
Remaining(st) == 4 * (Len(st.lines) - st.i) + LoopDepth(st.at)

-----------------------------------------------------------------------------
(* Claims about apply_patch (SpecPatch) *)

Calls == 1..Len(log)

\* the path a modification reads and writes: new_path (old_path if that is
\* empty) when a file is there, else old_path
ModTarget(d) ==
    LET rel == IF patch.new_path # <<>> THEN patch.new_path ELSE patch.old_path
    IN  IF Exists(d, rel) THEN rel ELSE patch.old_path

\* call e is a modification that got to read its file
ReadsFile(e) ==
    /\ patch.old_path # <<>>
    /\ Exists(e.before, ModTarget(e.before))
    /\ e.io # "read_fails"

OriginalLines(e) == SplitLines(e.before[ModTarget(e.before)])

\* the buffer after the hunks behind hunk n were applied, last one first
BufferBefore(e, n) ==
    ReversedHunks(OriginalLines(e), SubSeq(patch.hunks, n + 1, Len(patch.hunks)),
                  Len(patch.hunks) - n)

\* hunk n is the one that does not apply: those behind it did
HunkFailsAt(e, n) ==
    /\ BufferBefore(e, n).status = "ok"
    /\ _apply_hunk(BufferBefore(e, n).lines, patch.hunks[n]).status = "none"

\* C1 as stated: after apply_patch has patched a file, the identical patch
\* applied again is refused with a hunk mismatch and leaves the file alone.
C1_ReapplyFails ==
    (Len(log) = 2 /\ log[1].out.kind = "Patched" /\ log[2].io = "ok")
        => (~log[2].out.ok /\ log[2].out.kind = "Mismatch" /\ log[2].out.disk = log[2].before)

\* C2: when a hunk of the patch does not apply, wherever it stands in the
\* list, the directory after apply_patch is the directory before it and the
\* entry returned is a failure naming the file and that hunk's old_start.
C2_NoPartialWrite ==
    \A j \in Calls : \A n \in 1..Len(patch.hunks) :
        (ReadsFile(log[j]) /\ HunkFailsAt(log[j], n))
            => /\ log[j].out.disk = log[j].before
               /\ ~log[j].out.ok /\ ~log[j].out.raised
               /\ log[j].out.kind = "Mismatch"
               /\ log[j].out.rel = ModTarget(log[j].before)
               /\ log[j].out.line = patch.hunks[n].old_start

\* the first hunk of two failed after the second had changed the buffer
C2_Witness ==
    /\ Len(log) = 1 /\ Len(patch.hunks) = 2
    /\ ReadsFile(log[1]) /\ HunkFailsAt(log[1], 1)
    /\ BufferBefore(log[1], 1).lines # OriginalLines(log[1])
    /\ log[1].out.kind = "Mismatch"

\* the reference: one walk down the original lines; before each hunk the
\* lines up to its old_start are copied, then its entries are followed
RECURSIVE WalkEntries(_, _, _, _, _)
WalkEntries(orig, hlines, j, cursor, acc) ==
    IF j > Len(hlines) THEN [cursor |-> cursor, acc |-> acc]
    ELSE IF hlines[j].op = " "
         THEN WalkEntries(orig, hlines, j + 1, cursor + 1, Append(acc, orig[cursor + 1]))
    ELSE IF hlines[j].op = "-"
         THEN WalkEntries(orig, hlines, j + 1, cursor + 1, acc)
    ELSE WalkEntries(orig, hlines, j + 1, cursor, Append(acc, hlines[j].text))

RECURSIVE ForwardWalk(_, _, _, _, _)
ForwardWalk(orig, hunks, n, cursor, acc) ==
    IF n > Len(hunks) THEN acc \o SubSeq(orig, cursor + 1, Len(orig))
    ELSE LET w == WalkEntries(orig, hunks[n].lines, 1, hunks[n].old_start - 1,
                              acc \o SubSeq(orig, cursor + 1, hunks[n].old_start - 1))
         IN  ForwardWalk(orig, hunks, n + 1, w.cursor, w.acc)

ForwardReference(orig, hunks) == ForwardWalk(orig, hunks, 1, 0, <<>>)

\* the hunks stand in ascending order, do not overlap and lie inside the file
OrderedInside(orig, hunks) ==
    /\ \A n \in 1..Len(hunks) :
           /\ hunks[n].old_start >= 1
           /\ hunks[n].old_start - 1 + OldSide(hunks[n].lines) <= Len(orig)
    /\ \A n \in 1..(Len(hunks) - 1) :
           hunks[n].old_start + OldSide(hunks[n].lines) <= hunks[n + 1].old_start

\* C6: for hunks in ascending order that do not overlap and lie inside the
\* file, apply_patch (last hunk first) writes what the forward reference
\* walk over the original lines produces.
C6_ReverseEqualsForward ==
    \A j \in Calls :
        (ReadsFile(log[j]) /\ log[j].io = "ok" /\ OrderedInside(OriginalLines(log[j]), patch.hunks))
            => /\ log[j].out.kind = "Patched"
               /\ log[j].out.disk[ModTarget(log[j].before)]
                      = PatchedContent(ForwardReference(OriginalLines(log[j]), patch.hunks))

\* two hunks were applied, the first of which changes the number of lines
C6_Witness ==
    /\ Len(log) = 1 /\ Len(patch.hunks) = 2
    /\ ReadsFile(log[1]) /\ log[1].io = "ok"
    /\ OrderedInside(OriginalLines(log[1]), patch.hunks)
    /\ OldSide(patch.hunks[1].lines) # NewSide(patch.hunks[1].lines)
    /\ OldSide(patch.hunks[2].lines) > 0
    /\ log[1].out.kind = "Patched"

\* every line of every hunk, in list order
RECURSIVE AllHunkLines(_)
AllHunkLines(hunks) ==
    IF hunks = <<>> THEN <<>> ELSE Head(hunks).lines \o AllHunkLines(Tail(hunks))

IsAddOrContext(hl) == hl.op \in {"+", " "}

\* each text followed by one line terminator
RECURSIVE Terminated(_)
Terminated(hlines) ==
    IF hlines = <<>> THEN <<>> ELSE Head(hlines).text \o <<"\n">> \o Terminated(Tail(hlines))

IsCreation == patch.old_path = <<>> /\ patch.new_path # <<>>

\* C9: for a patch with empty old_path and a new_path, apply_patch (when
\* neither the mkdir nor the write raises) returns success and leaves at
\* new_path exactly the texts of the Add and Context lines of all hunks in
\* order, each followed by one line terminator, whether or not a file was
\* there before; no other file changes.
C9_Creation ==
    \A j \in Calls :
        (IsCreation /\ log[j].io \notin {"mkdir_fails", "write_fails"})
            => /\ log[j].out.ok /\ log[j].out.kind = "Created"
               /\ log[j].out.rel = patch.new_path
               /\ DOMAIN log[j].out.disk = DOMAIN log[j].before \cup {patch.new_path}
               /\ log[j].out.disk[patch.new_path]
                      = Terminated(SelectSeq(AllHunkLines(patch.hunks), IsAddOrContext))
               /\ \A q \in DOMAIN log[j].before \ {patch.new_path} :
                      log[j].out.disk[q] = log[j].before[q]

\* a file was created over an existing one from two hunks holding a Context,
\* a Remove and an Add line
C9_Witness ==
    /\ Len(log) = 1 /\ IsCreation /\ log[1].out.kind = "Created"
    /\ Exists(log[1].before, patch.new_path)
    /\ Len(patch.hunks) = 2
    /\ {hl.op : hl \in {AllHunkLines(patch.hunks)[a] : a \in 1..Len(AllHunkLines(patch.hunks))}}
           = {" ", "-", "+"}

\* C10 as stated: every content a successful apply_patch writes ends with
\* exactly one line terminator, and a modification's content holds every line
\* of the patched buffer.
C10_OneTrailingTerminator ==
    \A j \in Calls :
        log[j].out.ok
            => LET content == log[j].out.disk[log[j].out.wrote]
               IN  /\ EndsWith(content, <<"\n">>)
                   /\ ~EndsWith(content, <<"\n", "\n">>)
                   /\ log[j].out.kind = "Patched"
                          => SplitLines(content) = BufferBefore(log[j], 0).lines

-----------------------------------------------------------------------------
(* Claims about apply_diff_to_codebase (Spec) *)

\* C3 as stated: no exception leaves apply_diff_to_codebase, whatever the
\* operating system does to the reads and writes, and once it has returned
\* every patch of the diff has its entry.
C3_FailuresAreData ==
    /\ pc # "raised"
    /\ pc = "returned" /\ patches # <<>> => Len(results) = Len(patches)

\* C7: the list apply_diff_to_codebase returns holds one entry per FilePatch
\* of parse_diff(diff_text), entry j being what apply_patch returned for patch
\* j; for a text without patches it holds the single failure entry "no valid
\* patches", and then no apply_patch call was made and no file changed.
C7_ResultShape ==
    pc = "returned" =>
        LET parsed == parse_diff(diff_text)
        IN  IF parsed = <<>>
            THEN /\ results = <<[ok |-> FALSE, kind |-> "NoValidPatches", rel |-> <<>>, line |-> 0]>>
                 /\ log = <<>>
                 /\ disk = disk0
            ELSE /\ Len(results) = Len(parsed)
                 /\ Len(log) = Len(parsed)
                 /\ \A j \in 1..Len(parsed) :
                        /\ log[j].out = apply_patch(parsed[j], log[j].before, log[j].io)
                        /\ log[j].before = (IF j = 1 THEN disk0 ELSE log[j - 1].out.disk)
                        /\ results[j] = [ok |-> log[j].out.ok, kind |-> log[j].out.kind,
                                         rel |-> log[j].out.rel, line |-> log[j].out.line]

\* a diff of two patches was applied, one with success and one without
C7_Witness ==
    /\ pc = "returned" /\ Len(results) = 2
    /\ results[1].ok /\ ~results[2].ok

\* C8 as stated: for every success entry update_file_content was called once,
\* with the codebase id, the path of the file apply_patch wrote and the
\* content it wrote; for every failure entry it was not called.
C8_StorageSync ==
    pc = "returned" =>
        \A j \in 1..Len(log) :
            db_calls[j] = IF results[j].ok
                          THEN <<[codebase_id |-> codebase_id,
                                  rel_path |-> log[j].out.wrote,
                                  new_content |-> log[j].out.disk[log[j].out.wrote]]>>
                          ELSE <<>>

-----------------------------------------------------------------------------
(* SpecRoot: the files apply_diff_to_codebase touches, by header path *)

\* root = Path(root_path).resolve(): an absolute path without ".."
root_path == <<"/", "r">>

\* PurePosixPath parsing: the components between "/", without "" and "."
RECURSIVE PathParts(_)
PathParts(s) ==
    IF s = <<>> THEN <<>>
    ELSE LET slashes == {n \in 1..Len(s) : s[n] = "/"}
             cut == IF slashes = {} THEN Len(s) + 1
                    ELSE CHOOSE n \in slashes : \A m \in slashes : n <= m
             part == SubSeq(s, 1, cut - 1)
             rest == PathParts(Drop(s, cut))
         IN  IF part = <<>> \/ part = <<".">> THEN rest ELSE <<part>> \o rest

IsAbsolute(s) == StartsWith(s, <<"/">>)

\* root / rel: an absolute right operand replaces the left one; ".." stays
JoinPath(root, rel) ==
    IF IsAbsolute(rel) THEN rel ELSE root \o <<"/">> \o rel

\* the file the operating system opens for an absolute path: ".." leaves the
\* directory reached so far (no symbolic links in the tree)
RECURSIVE Walk(_, _)
Walk(parts, at) ==
    IF parts = <<>> THEN at
    ELSE IF Head(parts) = <<".", ".">>
         THEN Walk(Tail(parts), IF at = <<>> THEN <<>> ELSE SubSeq(at, 1, Len(at) - 1))
         ELSE Walk(Tail(parts), Append(at, Head(parts)))

Resolved(path) == Walk(PathParts(path), <<>>)

\* the paths apply_patch hands to exists, mkdir, read_text and write_text
Touched(p, root, present) ==
    LET rel == IF p.new_path # <<>> THEN p.new_path ELSE p.old_path
    IN  IF rel = <<>> THEN {}
        ELSE IF p.old_path = <<>> THEN {JoinPath(root, rel)}
        ELSE IF present THEN {JoinPath(root, rel)}
        ELSE {JoinPath(root, rel), JoinPath(root, p.old_path)}

OldHeaders ==
    { <<"-", "-", "-", " ">> \o path :
        path \in { <<"/", "d", "e", "v", "/", "n", "u", "l", "l">>,
                   <<"a", "/", "f">>,
                   <<"a", "/", ".", ".", "/", "g">> } }

NewHeaders ==
    { <<"+", "+", "+", " ">> \o path :
        path \in { <<"/", "d", "e", "v", "/", "n", "u", "l", "l">>,
                   <<"b", "/", "f">>,
                   <<"b", "/", "d", "/", ".", ".", "/", "f">>,
                   <<"b", "/", ".", ".", "/", "f">>,
                   <<"/", "f">> } }

HeaderPairs == { <<o, n>> : o \in OldHeaders, n \in NewHeaders }

RootTexts == { JoinLines(Flatten(bs)) : bs \in SeqsUpTo(HeaderPairs, MaxBlocks) }

InitRoot ==
    /\ diff_text \in RootTexts
    /\ pc = "root_call"
    /\ patches = <<>> /\ k = 0 /\ results = <<>>
    /\ disk = NoDisk /\ disk0 = NoDisk /\ db_calls = <<>> /\ log = <<>>
    /\ ps = Idle /\ hdr = 0 /\ iters = 0 /\ chat = Idle /\ patch = Idle

\* patches = parse_diff(diff_text)
RootBegin ==
    /\ pc = "root_call"
    /\ patches' = parse_diff(diff_text)
    /\ pc' = IF patches' = <<>> THEN "root_returned" ELSE "root_loop"
    /\ UNCHANGED <<chat, diff_text, ps, hdr, iters, disk, patch, log, k, results, db_calls, disk0>>

\* one apply_patch(patch, root_path); results collects the paths it touched
RootApply ==
    /\ pc = "root_loop" /\ k < Len(patches)
    /\ \E present \in BOOLEAN :
           results' = Append(results, Touched(patches[k + 1], root_path, present))
    /\ k' = k + 1
    /\ UNCHANGED <<chat, diff_text, ps, hdr, iters, disk, patch, log, pc, patches, db_calls, disk0>>

RootReturn ==
    /\ pc = "root_loop" /\ k = Len(patches)
    /\ pc' = "root_returned"
    /\ UNCHANGED <<chat, diff_text, ps, hdr, iters, disk, patch, log, patches, k, results, db_calls, disk0>>

NextRoot == RootBegin \/ RootApply \/ RootReturn

SpecRoot == InitRoot /\ [][NextRoot]_vars

IsUnder(root, path) ==
    LET r == Resolved(root)
        t == Resolved(path)
    IN  Len(t) >= Len(r) /\ SubSeq(t, 1, Len(r)) = r

\* C11 as stated: every file apply_diff_to_codebase reads, creates or writes
\* lies under root_path, whatever path the "---"/"+++" headers carry
\* (".." components and absolute paths included).
C11_UnderRoot ==
    \A j \in 1..Len(results) :
        \A t \in results[j] : IsUnder(root_path, t)

-----------------------------------------------------------------------------
(* SpecRound: FilePatch lists written out as unified diff text and parsed *)

MaxRound == 2

DigitChars == <<"0", "1", "2", "3", "4", "5", "6", "7", "8", "9">>

RECURSIVE Decimal(_)
Decimal(n) ==
    IF n < 10 THEN <<DigitChars[n + 1]>>
    ELSE Decimal(n \div 10) \o <<DigitChars[(n % 10) + 1]>>

\* "--- a/<old>" or "--- /dev/null"; "+++ b/<new>" or "+++ /dev/null"
RenderHeader(marker, prefix, path) ==
    marker \o <<" ">> \o (IF path = <<>> THEN DevNull ELSE prefix \o path)

\* "@@ -s,c +s,c @@" and each line with its marker
RenderHunk(h) ==
    << <<"@", "@", " ", "-">> \o Decimal(h.old_start) \o <<",">> \o Decimal(h.old_count)
         \o <<" ", "+">> \o Decimal(h.new_start) \o <<",">> \o Decimal(h.new_count)
         \o <<" ", "@", "@">> >>
    \o [j \in 1..Len(h.lines) |-> <<h.lines[j].op>> \o h.lines[j].text]

RenderPatch(p) ==
    << RenderHeader(<<"-", "-", "-">>, <<"a", "/">>, p.old_path),
       RenderHeader(<<"+", "+", "+">>, <<"b", "/">>, p.new_path) >>
    \o Flatten([j \in 1..Len(p.hunks) |-> RenderHunk(p.hunks[j])])

Render(ps_list) ==
    JoinLines(Flatten([j \in 1..Len(ps_list) |-> RenderPatch(ps_list[j])]))

\* a hunk with the counts of its lines
ExactHunk(old_start, new_start, hlines) ==
    Hunk(old_start, OldSide(hlines), new_start, NewSide(hlines), hlines)

\* hunk lists: none; a replacement whose texts look like file headers; an
\* insertion at 0 and, out of order before it, a hunk with two-digit numbers
\* and blank kept lines; an empty hunk
RoundHunkLists ==
    { <<>>,
      << ExactHunk(1, 1, << HunkLine("-", <<"-", "-", " ", "a", "/", "f">>),
                            HunkLine("+", <<"+", "+", " ", "b", "/", "f">>) >>) >>,
      << ExactHunk(12, 13, << HunkLine(" ", <<>>), HunkLine("-", <<"x">>),
                              HunkLine(" ", <<>>) >>),
         ExactHunk(0, 1, << HunkLine("+", <<"N">>) >>) >>,
      << ExactHunk(3, 3, <<>>) >> }

\* old paths: none, f, f after a blank, f before a blank
RoundOldPaths == { <<>>, <<"f">>, <<" ", "f">>, <<"f", " ">> }

\* new paths: none, g, g followed by a tab and more
RoundNewPaths == { <<>>, <<"g">>, <<"g", "\t", "x">> }

RoundPatches ==
    { FilePatch(o, n, hs) : o \in RoundOldPaths, n \in RoundNewPaths, hs \in RoundHunkLists }

InitRound ==
    /\ patches \in SeqsUpTo(RoundPatches, MaxRound)
    /\ diff_text = <<>>
    /\ results = <<>>
    /\ pc = "render"
    /\ k = 0 /\ disk = NoDisk /\ disk0 = NoDisk /\ db_calls = <<>> /\ log = <<>>
    /\ ps = Idle /\ hdr = 0 /\ iters = 0 /\ chat = Idle /\ patch = Idle

\* the text is built from the known FilePatch list
RenderText ==
    /\ pc = "render"
    /\ diff_text' = Render(patches)
    /\ pc' = "parse_rendered"
    /\ UNCHANGED <<chat, ps, hdr, iters, disk, patch, log, patches, k, results, db_calls, disk0>>

\* results = parse_diff(diff_text)
ParseRendered ==
    /\ pc = "parse_rendered"
    /\ results' = parse_diff(diff_text)
    /\ pc' = "round_done"
    /\ UNCHANGED <<chat, diff_text, ps, hdr, iters, disk, patch, log, patches, k, db_calls, disk0>>

NextRound == RenderText \/ ParseRendered

SpecRound == InitRound /\ [][NextRound]_vars

\* C12 as stated: every list of FilePatch values whose hunks satisfy the count
\* invariant is parsed back, from its unified diff text, as the same list.
C12_RoundTripAll ==
    pc = "round_done" => results = patches

\* a path that a header line carries unchanged: no tab, no line break, no
\* blank at its end
PlainPath(p) ==
    /\ \A j \in 1..Len(p) : p[j] \notin {"\t"} \cup LineBreaks
    /\ RStrip(p) = p

PlainPaths ==
    \A j \in 1..Len(patches) :
        PlainPath(patches[j].old_path) /\ PlainPath(patches[j].new_path)

\* C12, for paths without a tab and without a blank at their end: the list
\* parsed from the rendered text equals the original list (paths, hunk
\* numbers, line ops and texts, in order).
C12_RoundTripPlainPaths ==
    (pc = "round_done" /\ PlainPaths) => results = patches

\* two patches came back: a creation and one whose second hunk lies before
\* its first
C12_Witness ==
    /\ pc = "round_done" /\ PlainPaths /\ Len(patches) = 2
    /\ patches[1].old_path = <<>> /\ Len(patches[1].hunks) = 1
    /\ Len(patches[2].hunks) = 2 /\ patches[2].old_path = <<" ", "f">>
    /\ results = patches

-----------------------------------------------------------------------------
(* Claims about file headers (Spec) *)

\* line j begins with "--- " and the line after it begins with "+++ "
HeaderPairAt(lines, j) ==
    /\ j < Len(lines)
    /\ StartsWith(lines[j], <<"-", "-", "-", " ">>)
    /\ StartsWith(lines[j + 1], <<"+", "+", "+", " ">>)

HasHeaderPair(text) ==
    LET lines == SplitLines(text)
    IN  \E j \in 1..Len(lines) : HeaderPairAt(lines, j)

\* C13 as stated: a text without a line beginning with "--- " that is
\* immediately followed by a line beginning with "+++ " yields zero patches,
\* and apply_diff_to_codebase returns the single "no valid patches" entry.
C13_NeedsBothMarkers ==
    (pc = "returned" /\ ~HasHeaderPair(diff_text)) =>
        (patches = <<>> /\ results = NoPatchesResult)

-----------------------------------------------------------------------------
(* Claims about single hunks and hunk order (SpecPatch) *)

\* the walk the claim describes, from entry j on with the cursor as a count of
\* source lines passed: [status, lines]
RECURSIVE RefEntries(_, _, _, _, _)
RefEntries(buf, hlines, j, cursor, acc) ==
    IF j > Len(hlines)
    THEN [status |-> "ok",
          lines |-> acc \o SubSeq(buf, (IF cursor < 0 THEN 0 ELSE cursor) + 1, Len(buf))]
    ELSE IF hlines[j].op = "+"
         THEN RefEntries(buf, hlines, j + 1, cursor, Append(acc, hlines[j].text))
    ELSE IF cursor >= Len(buf) THEN [status |-> "none", lines |-> <<>>]
    ELSE IF hlines[j].op = " "
         THEN RefEntries(buf, hlines, j + 1, cursor + 1, Append(acc, buf[cursor + 1]))
    ELSE RefEntries(buf, hlines, j + 1, cursor + 1, acc)

\* the lines of buf before index n (counted from 0)
LinesBefore(buf, n) ==
    SubSeq(buf, 1, IF n < 0 THEN 0 ELSE IF n > Len(buf) THEN Len(buf) ELSE n)

SingleHunkReference(buf, h) ==
    RefEntries(buf, h.lines, 1, h.old_start - 1, LinesBefore(buf, h.old_start - 1))

\* the walk names a source line for every Context and Remove entry it reaches:
\* the cursor does not start before the first line
ReferenceDefined(h) == h.old_start >= 1 \/ OldSide(h.lines) = 0

\* C14 as stated: for every buffer and every single hunk (old_start 0 and
\* old_start past the end included) apply_patch reports a mismatch exactly
\* when the walk reaches a Context or Remove entry with the cursor at or past
\* the end of the buffer, and otherwise writes the lines before index
\* old_start - 1, what the entries give, and the source lines from the final
\* cursor on.
C14_SingleHunkReference ==
    \A j \in Calls :
        (ReadsFile(log[j]) /\ log[j].io = "ok" /\ Len(patch.hunks) = 1
            /\ ReferenceDefined(patch.hunks[1]))
        => LET ref == SingleHunkReference(OriginalLines(log[j]), patch.hunks[1])
           IN  IF ref.status = "none"
               THEN log[j].out.kind = "Mismatch" /\ log[j].out.disk = log[j].before
               ELSE /\ log[j].out.kind = "Patched"
                    /\ log[j].out.disk[ModTarget(log[j].before)] = PatchedContent(ref.lines)

\* hunk n of the patch is reached by the loop of call e: the hunks behind it
\* in the list applied
HunkReached(e, n) == BufferBefore(e, n).status = "ok"

\* C15 as stated: whatever order the hunks stand in, apply_patch applies them
\* in descending old_start order (no hunk is applied after one with a smaller
\* old_start), and each hunk is applied to a buffer whose lines before its
\* old_start are still those of the original file.
C15_DescendingOrder ==
    \A j \in Calls : \A n \in 1..Len(patch.hunks) :
        (ReadsFile(log[j]) /\ HunkReached(log[j], n))
            => /\ \A m \in (n + 1)..Len(patch.hunks) :
                      patch.hunks[m].old_start >= patch.hunks[n].old_start
               /\ LinesBefore(BufferBefore(log[j], n).lines, patch.hunks[n].old_start - 1)
                      = LinesBefore(OriginalLines(log[j]), patch.hunks[n].old_start - 1)

\* the paths of the header pair at line j, as parse_diff cuts them
PairPaths(lines, j) ==
    [old_path |-> _strip_path_prefix(SplitTabFirst(Strip(Drop(lines[j], 4)))),
     new_path |-> _strip_path_prefix(SplitTabFirst(Strip(Drop(lines[j + 1], 4))))]

\* the header pairs of the text from line j on, in order
RECURSIVE PairsFrom(_, _)
PairsFrom(lines, j) ==
    IF j > Len(lines) THEN <<>>
    ELSE IF HeaderPairAt(lines, j) THEN <<PairPaths(lines, j)>> \o PairsFrom(lines, j + 1)
    ELSE PairsFrom(lines, j + 1)

\* every line of the text that begins with "---" or "+++" has a blank next
MarkersSpaced(text) ==
    LET lines == SplitLines(text)
    IN  \A j \in 1..Len(lines) :
            /\ StartsWith(lines[j], Dashes) => StartsWith(lines[j], <<"-", "-", "-", " ">>)
            /\ StartsWith(lines[j], Pluses) => StartsWith(lines[j], <<"+", "+", "+", " ">>)

\* C16 as stated (for texts whose markers have their blank): parse_diff returns one FilePatch per "--- "/"+++ " header
\* pair of the text, in the order met and with that pair's paths, also when
\* the hunk before a pair is cut short: the header lines of the next file
\* never become lines of the previous file's hunk.
C16_OnePatchPerHeaderPair ==
    (pc # "call" /\ MarkersSpaced(diff_text)) =>
        [j \in 1..Len(patches) |->
            [old_path |-> patches[j].old_path, new_path |-> patches[j].new_path]]
            = PairsFrom(SplitLines(diff_text), 1)

-----------------------------------------------------------------------------
(* extract_diff_from_response *)

\* the grave accent (U+0060), which a string of this language cannot hold
Backtick == "grave"

Fence == <<Backtick, Backtick, Backtick>>

\* index just past the run of whitespace that starts at index p
RECURSIVE SpaceEnd(_, _)
SpaceEnd(s, p) == IF p <= Len(s) /\ s[p] \in Whitespace THEN SpaceEnd(s, p + 1) ELSE p

\* "\s*\n" from index q: the index after the last "\n" of the whitespace run
\* at q (the run is taken whole, then given back up to a "\n"), 0 if none
AfterBreak(s, q) ==
    LET breaks == {n \in q..(SpaceEnd(s, q) - 1) : s[n] = "\n"}
    IN  IF breaks = {} THEN 0
        ELSE (CHOOSE n \in breaks : \A m \in breaks : m <= n) + 1

\* the lazy group and the closing fence, from index b: the index of the first
\* fence at or after b, 0 if none
ClosingFence(s, b) ==
    LET fences == {c \in b..Len(s) : LitAt(s, c, Fence)}
    IN  IF fences = {} THEN 0 ELSE CHOOSE c \in fences : \A m \in fences : c <= m

\* the fenced-block pattern tried at index p: [ok, group]
FencedAt(s, p) ==
    LET q == IF LitAt(s, p + 3, <<"d", "i", "f", "f">>) THEN p + 7 ELSE p + 3
        b == AfterBreak(s, q)
        c == IF b = 0 THEN 0 ELSE ClosingFence(s, b)
    IN  IF LitAt(s, p, Fence) /\ b # 0 /\ c # 0
        THEN [ok |-> TRUE, group |-> SubSeq(s, b, c - 1)]
        ELSE [ok |-> FALSE, group |-> <<>>]

\* re.search: the match at the leftmost index that has one
FencedSearch(s) ==
    LET hits == {p \in 1..Len(s) : FencedAt(s, p).ok}
    IN  IF hits = {} THEN [ok |-> FALSE, group |-> <<>>]
        ELSE FencedAt(s, CHOOSE p \in hits : \A m \in hits : p <= m)

IsMarkerLine(line) ==
    StartsWith(line, <<"-", "-", "-", " ">>) \/ StartsWith(line, <<"+", "+", "+", " ">>)

\* the lines from the first one that begins with "--- " or "+++ " on
RawDiffLines(lines) ==
    LET marks == {j \in 1..Len(lines) : IsMarkerLine(lines[j])}
    IN  IF marks = {} THEN <<>>
        ELSE SubSeq(lines, CHOOSE j \in marks : \A m \in marks : j <= m, Len(lines))

extract_diff_from_response(response) ==
    LET fenced == FencedSearch(response)
    IN  IF fenced.ok THEN Strip(fenced.group)
        ELSE Strip(JoinLines(RawDiffLines(SplitLines(response))))

-----------------------------------------------------------------------------
(* SpecChat: the loop of option_chat *)

MaxTurns == 2

UpperCase == <<"C", "Q">>
LowerCase == <<"c", "q">>

\* s.lower(), for the letters the inputs below hold
Lower(s) ==
    [j \in 1..Len(s) |->
        IF \E n \in 1..Len(UpperCase) : UpperCase[n] = s[j]
        THEN LowerCase[CHOOSE n \in 1..Len(UpperCase) : UpperCase[n] = s[j]]
        ELSE s[j]]

QuitWords == { <<"q", "u", "i", "t">>, <<"e", "x", "i", "t">>, <<"q">> }
ClearWord == <<"c", "l", "e", "a", "r">>

\* what the user types at the prompt: nothing, a blank, " Q", "Clear", "hi"
UserInputs ==
    { <<>>, <<" ">>, <<" ", "Q">>, <<"C", "l", "e", "a", "r">>, <<"h", "i">> }

\* answers of the assistant: prose; a fenced diff block that replaces line 1
\* of f; a diff without fence that creates g; a fenced stale diff without the
\* word diff; an empty fenced block; a fenced block of another language
Responses ==
    { <<"o", "k", ":">>,
      JoinLines(<< <<"o", "k", ":">>, Fence \o <<"d", "i", "f", "f">> >>
                \o BlockModify \o <<Fence>>),
      JoinLines(<< <<"o", "k", ":">> >> \o BlockCreate),
      JoinLines(<<Fence>> \o BlockStale \o <<Fence, <<>> >>),
      JoinLines(<<Fence, Fence>>),
      JoinLines(<< Fence \o <<"p", "y">>, <<"x">>, Fence >>) }

\* faulty variant: the patch is applied whatever the answer
AfterConfirmAlways(apply) == "call"

\* "if apply:" and the end of the loop body
AfterConfirm(apply) == IF apply THEN "call" ELSE "prompt"

\* chat: user_input, full_response and apply are option_chat's locals;
\* messages counts the stored chat messages; turns counts the loop's
\* iterations and turn_disk (history) is the directory when the current
\* iteration began
InitChat ==
    /\ disk \in {[q \in {FileF} |-> OneLine], [q \in {FileF, FileH} |-> OneLine]}
    /\ disk0 = disk
    /\ chat = [user_input |-> <<>>, full_response |-> <<>>, apply |-> FALSE,
               messages |-> 0, turns |-> 0, turn_disk |-> disk]
    /\ diff_text = <<>>
    /\ pc = "prompt"
    /\ patches = <<>> /\ k = 0 /\ results = <<>> /\ db_calls = <<>> /\ log = <<>>
    /\ ps = Idle /\ hdr = 0 /\ iters = 0 /\ patch = Idle

NotApplying == UNCHANGED <<ps, hdr, iters, disk, patch, log, patches, k, results, db_calls, disk0>>

\* Prompt.ask(...).strip() and the three tests on user_input
Ask ==
    /\ pc = "prompt" /\ chat.turns < MaxTurns
    /\ \E typed \in UserInputs :
           LET user_input == Strip(typed)
               began == [chat EXCEPT !.user_input = user_input, !.apply = FALSE,
                                     !.turns = chat.turns + 1, !.turn_disk = disk]
           IN  IF user_input = <<>> THEN chat' = began /\ pc' = "prompt"
               ELSE IF Lower(user_input) \in QuitWords THEN chat' = began /\ pc' = "menu"
               ELSE IF Lower(user_input) = ClearWord
               THEN chat' = [began EXCEPT !.messages = 0] /\ pc' = "prompt"
               ELSE chat' = began /\ pc' = "ai"
    /\ UNCHANGED diff_text /\ NotApplying

\* full_response = ai_chat.chat_with_ai(...): it returns an answer and stores
\* two messages, or raises, which ends the iteration
ChatAI ==
    /\ pc = "ai"
    /\ \/ \E answer \in Responses :
              /\ chat' = [chat EXCEPT !.full_response = answer,
                                      !.messages = chat.messages + 2]
              /\ pc' = "extract"
       \/ /\ chat' = [chat EXCEPT !.full_response = <<>>]
          /\ pc' = "prompt"
    /\ UNCHANGED diff_text /\ NotApplying

\* diff_text = patcher.extract_diff_from_response(full_response); "if diff_text:"
Extract ==
    /\ pc = "extract"
    /\ diff_text' = extract_diff_from_response(chat.full_response)
    /\ pc' = IF diff_text' # <<>> THEN "confirm" ELSE "prompt"
    /\ UNCHANGED chat /\ NotApplying

\* apply = Confirm.ask(..., default=False); with yes, apply_diff_to_codebase
\* is entered
Confirm ==
    /\ pc = "confirm"
    /\ \E apply \in BOOLEAN :
           /\ chat' = [chat EXCEPT !.apply = apply]
           /\ pc' = AfterConfirm(apply)
    /\ patches' = <<>> /\ k' = 0 /\ results' = <<>> /\ db_calls' = <<>> /\ log' = <<>>
    /\ disk0' = disk
    /\ UNCHANGED <<diff_text, ps, hdr, iters, disk, patch>>

\* the results are printed and the loop goes back to the prompt
ShowResults ==
    /\ pc = "returned"
    /\ pc' = "prompt"
    /\ UNCHANGED <<chat, diff_text>> /\ NotApplying

NextChat == Ask \/ ChatAI \/ Extract \/ Confirm \/ Begin \/ ApplyNext \/ Return \/ ShowResults

SpecChat == InitChat /\ [][NextChat]_vars

\* control is inside apply_diff_to_codebase
Applying == pc \in {"call", "loop", "returned", "raised"}

\* C17: apply_diff_to_codebase is entered only from the confirmation prompt,
\* with the answer yes and the non-empty diff extracted from the current
\* response; a file changes only inside such a call, so an iteration without
\* a yes leaves the directory as it was when the iteration began; and the
\* prompt is reached from a call only after it returned its result list.
C17_ConfirmationGating ==
    [][ /\ (pc' = "call" /\ pc # "call")
            => /\ pc = "confirm" /\ chat'.apply
               /\ diff_text' # <<>>
               /\ diff_text' = extract_diff_from_response(chat'.full_response)
        /\ (disk' # disk) => (Applying /\ chat.apply)
        /\ (~chat'.apply) => (disk' = chat'.turn_disk /\ ~Applying')
        /\ (Applying /\ pc' = "prompt") => (pc = "returned" /\ k = Len(patches))
        /\ (chat'.turns # chat.turns) => ~Applying
      ]_vars

\* in the second iteration a confirmed diff was applied and changed a file,
\* after a first iteration in which the assistant answered too
C17_Witness ==
    /\ pc = "returned" /\ chat.turns = 2 /\ chat.apply
    /\ Len(results) = 1 /\ results[1].ok
    /\ disk # chat.turn_disk
    /\ chat.messages = 4

====
